---- MODULE Spec2Model ----
(***************************************************************************)
(* State-machine model of fontTools.pens.freetypePen.FreeTypePen: the      *)
(* contour accumulator (_moveTo/_lineTo/_curveToOne/_qCurveToOne), the     *)
(* outline builder (outline), the bounding-box properties (bbox, cbox) and *)
(* the rasterizer entry point (buffer).                                    *)
(*                                                                         *)
(* Real numbers are exact rationals.  Coordinates, offsets, widths and box *)
(* extents are numerators over Unit (1/128 pixel); a scale component is a  *)
(* pair <<n, d>> standing for n/d with d > 0.  An omitted (None) offset or *)
(* scale is the empty tuple, which Python's `or` treats like None.         *)
(***************************************************************************)
EXTENDS Integers, Sequences, FiniteSets, TLC

VARIABLES
  contours,   \* self.contours: the accumulated Contour(points, tags) records
  ret,        \* the outcome of the last call: what it returned or raised
  engineErr,  \* what FT_Outline_Get_Bitmap returned in the last call, -1 if not called
  nBegin,     \* history: the number of contours begun
  nAppended   \* history: the number of points recorded

vars == <<contours, ret, engineErr, nBegin, nAppended>>

----------------------------------------------------------------------------
(* Tag constants, freetypePen.py lines 25-29 *)
LINE == 1
CURVE == 3
OFFCURVE == 2
QCURVE == 1
QOFFCURVE == 0

(* freetype.ft_enums values imported at line 18 *)
FT_OUTLINE_NONE == 0
FT_OUTLINE_EVEN_ODD_FILL == 2

(* the sub-pixel factor of lines 126, 300 and 312 *)
SubPixel == 64

(* denominator of every modelled real number: half a sub-pixel unit, so    *)
(* that x * 64 can fall exactly between two integers                       *)
Unit == 2 * SubPixel

----------------------------------------------------------------------------
(* Bounds and input sets *)
MaxPoints == 4

Points == {<<3, -3>>, <<130, 2>>}

Offsets == {<<>>, <<-Unit, -Unit>>, <<1, 2>>}

Half == << <<1, 2>>, <<2, 1>> >>

Mirror == << <<-1, 1>>, <<1, 1>> >>

Flat == << <<1, 1>>, <<0, 1>> >>

Scales == {<<>>, Half, Mirror, Flat}

(* calls of buffer: <<offset, width, height, evenOdd, scale, contain>> *)
BufferCalls ==
  { << <<>>,             1, 2, FALSE, <<>>,   FALSE >>,
    << <<>>,             0, 0, FALSE, <<>>,   TRUE  >>,
    << <<-Unit, -Unit>>, 1, 2, TRUE,  <<>>,   TRUE  >>,
    << <<1, 2>>,         2, 1, FALSE, Half,   TRUE  >>,
    << <<1, 2>>,         2, 1, TRUE,  Half,   FALSE >>,
    << <<>>,             1, 2, FALSE, Mirror, FALSE >>,
    << <<>>,             1, 2, FALSE, Flat,   TRUE  >>,
    << <<-Unit, -Unit>>, 0, 0, FALSE, Mirror, FALSE >> }

(* return codes of the scan-conversion engine: 0 is success *)
FT_Errors == {0, 20, 98}

----------------------------------------------------------------------------
(* Arithmetic helpers *)
Abs(n) == IF n < 0 THEN -n ELSE n

Sign(n) == IF n < 0 THEN -1 ELSE IF n > 0 THEN 1 ELSE 0

Min2(a, b) == IF a < b THEN a ELSE b

(* mutant of Max2: keeps the smaller value *)
Max2_smaller(a, b) == IF a > b THEN b ELSE a

Max2(a, b) == IF a > b THEN a ELSE b

SetMin(S) == CHOOSE m \in S : \A x \in S : m <= x

SetMax(S) == CHOOSE m \in S : \A x \in S : m >= x

(* math.ceil of the rational num/den, den > 0 *)
ceil(num, den) == -((-num) \div den)

(* fontTools.misc.roundTools.otRound of the rational num/den, den > 0:     *)
(* nearest integer, a tie going away from zero                             *)
otRound(num, den) == Sign(num) * ((2 * Abs(num) + den) \div (2 * den))

(* ctypes.c_short(v): 16-bit two's complement *)
c_short(v) == ((v + 32768) % 65536) - 32768

(* Python's `x or default` on an optional tuple *)
OrDefault(v, d) == IF Len(v) = 0 THEN d ELSE v

----------------------------------------------------------------------------
(* Contour accumulator helpers *)
Contour(points, tags) == [points |-> points, tags |-> tags]

RECURSIVE SumLen(_)
SumLen(cs) == IF cs = <<>> THEN 0 ELSE Len(Head(cs).points) + SumLen(Tail(cs))

RECURSIVE FlatPoints(_)
FlatPoints(cs) == IF cs = <<>> THEN <<>> ELSE Head(cs).points \o FlatPoints(Tail(cs))

RECURSIVE FlatTags(_)
FlatTags(cs) == IF cs = <<>> THEN <<>> ELSE Head(cs).tags \o FlatTags(Tail(cs))

(* mutant of EndIndices: records the running count, not the last index *)
RECURSIVE EndIndices_count(_, _)
EndIndices_count(cs, contours_sum) ==
  IF cs = <<>> THEN <<>>
  ELSE <<c_short(contours_sum + Len(Head(cs).points))>>
         \o EndIndices_count(Tail(cs), contours_sum + Len(Head(cs).points))

RECURSIVE EndIndices(_, _)
EndIndices(cs, contours_sum) ==
  IF cs = <<>> THEN <<>>
  ELSE <<c_short(contours_sum + Len(Head(cs).points) - 1)>>
         \o EndIndices(Tail(cs), contours_sum + Len(Head(cs).points))

(* mutant of AppendToLast: picks self.contours[0] instead of [-1] *)
AppendToFirst(cs, pts, tgs) ==
  [cs EXCEPT ![1] = Contour(@.points \o pts, @.tags \o tgs)]

(* the append loop shared by _lineTo, _curveToOne and _qCurveToOne:        *)
(* contour = self.contours[-1]; contour.points.append(p);                  *)
(* contour.tags.append(t) for each (p, t)                                  *)
AppendToLast(cs, pts, tgs) ==
  [cs EXCEPT ![Len(cs)] = Contour(@.points \o pts, @.tags \o tgs)]

----------------------------------------------------------------------------
(* mutant of FT_Vector: scales before translating *)
FT_Vector_scale_first(pt, offset, scale) ==
  << otRound((pt[1] * scale[1][1] + offset[1] * scale[1][2]) * SubPixel, Unit * scale[1][2]),
     otRound((pt[2] * scale[2][1] + offset[2] * scale[2][2]) * SubPixel, Unit * scale[2][2]) >>

(* FreeTypePen.outline *)
FT_Vector(pt, offset, scale) ==
  << otRound((pt[1] + offset[1]) * scale[1][1] * SubPixel, Unit * scale[1][2]),
     otRound((pt[2] + offset[2]) * scale[2][1] * SubPixel, Unit * scale[2][2]) >>

outline(cs, offset0, scale0, evenOdd) ==
  LET offset == OrDefault(offset0, <<0, 0>>)
      scale  == OrDefault(scale0, << <<1, 1>>, <<1, 1>> >>)
      pts    == FlatPoints(cs)
  IN  [ n_contours |-> c_short(Len(cs)),
        n_points   |-> c_short(SumLen(cs)),
        points     |-> [i \in 1..Len(pts) |-> FT_Vector(pts[i], offset, scale)],
        tags       |-> FlatTags(cs),
        contours   |-> EndIndices(cs, 0),
        flags      |-> IF evenOdd THEN FT_OUTLINE_EVEN_ODD_FILL ELSE FT_OUTLINE_NONE ]

----------------------------------------------------------------------------
Init ==
  /\ contours = <<>>
  /\ ret = [op |-> "init", err |-> "none"]
  /\ engineErr = -1
  /\ nBegin = 0
  /\ nAppended = 0

moveTo(pt) ==
  /\ SumLen(contours) + 1 <= MaxPoints
  /\ contours' = Append(contours, Contour(<<pt>>, <<LINE>>))
  /\ ret' = [op |-> "moveTo", err |-> "none", args |-> <<pt>>]
  /\ engineErr' = -1
  /\ nBegin' = nBegin + 1
  /\ nAppended' = nAppended + 1

(* mutant of lineTo: opens a contour when none is open *)
lineTo_implicit(pt) ==
  /\ SumLen(contours) + 1 <= MaxPoints
  /\ contours' = IF contours = <<>> THEN <<Contour(<<pt>>, <<LINE>>)>>
                 ELSE AppendToLast(contours, <<pt>>, <<LINE>>)
  /\ ret' = [op |-> "lineTo", err |-> "none", args |-> <<pt>>]
  /\ nAppended' = nAppended + 1
  /\ engineErr' = -1
  /\ UNCHANGED nBegin

lineTo(pt) ==
  IF contours = <<>>
  THEN /\ ret' = [op |-> "lineTo", err |-> "IndexError", args |-> <<pt>>]
       /\ engineErr' = -1
       /\ UNCHANGED <<contours, nBegin, nAppended>>
  ELSE /\ SumLen(contours) + 1 <= MaxPoints
       /\ contours' = AppendToLast(contours, <<pt>>, <<LINE>>)
       /\ ret' = [op |-> "lineTo", err |-> "none", args |-> <<pt>>]
       /\ nAppended' = nAppended + 1
       /\ engineErr' = -1
       /\ UNCHANGED nBegin

curveToOne(p1, p2, p3) ==
  IF contours = <<>>
  THEN /\ ret' = [op |-> "curveTo", err |-> "IndexError", args |-> <<p1, p2, p3>>]
       /\ engineErr' = -1
       /\ UNCHANGED <<contours, nBegin, nAppended>>
  ELSE /\ SumLen(contours) + 3 <= MaxPoints
       /\ contours' = AppendToLast(contours, <<p1, p2, p3>>, <<OFFCURVE, OFFCURVE, CURVE>>)
       /\ ret' = [op |-> "curveTo", err |-> "none", args |-> <<p1, p2, p3>>]
       /\ nAppended' = nAppended + 3
       /\ engineErr' = -1
       /\ UNCHANGED nBegin

qCurveToOne(p1, p2) ==
  IF contours = <<>>
  THEN /\ ret' = [op |-> "qCurveTo", err |-> "IndexError", args |-> <<p1, p2>>]
       /\ engineErr' = -1
       /\ UNCHANGED <<contours, nBegin, nAppended>>
  ELSE /\ SumLen(contours) + 2 <= MaxPoints
       /\ contours' = AppendToLast(contours, <<p1, p2>>, <<QOFFCURVE, QCURVE>>)
       /\ ret' = [op |-> "qCurveTo", err |-> "none", args |-> <<p1, p2>>]
       /\ nAppended' = nAppended + 2
       /\ engineErr' = -1
       /\ UNCHANGED nBegin

(* mutant of Outline: translates the stored points in place *)
Outline_inplace(offset, scale, evenOdd) ==
  /\ ret' = [op |-> "outline", err |-> "none",
             args |-> <<offset, scale, evenOdd>>,
             value |-> outline(contours, offset, scale, evenOdd)]
  /\ contours' = [k \in 1..Len(contours) |->
                    Contour([i \in 1..Len(contours[k].points) |->
                               << contours[k].points[i][1] + OrDefault(offset, <<0, 0>>)[1],
                                  contours[k].points[i][2] + OrDefault(offset, <<0, 0>>)[2] >>],
                            contours[k].tags)]
  /\ engineErr' = -1
  /\ UNCHANGED <<nBegin, nAppended>>

(* a call of outline(offset, scale, evenOdd): reads self.contours only *)
Outline(offset, scale, evenOdd) ==
  /\ ret' = [op |-> "outline", err |-> "none",
             args |-> <<offset, scale, evenOdd>>,
             value |-> outline(contours, offset, scale, evenOdd)]
  /\ engineErr' = -1
  /\ UNCHANGED <<contours, nBegin, nAppended>>

----------------------------------------------------------------------------
(* The external engine (FreeType), by its interface contract.              *)
Box(xMin, yMin, xMax, yMax) == [xMin |-> xMin, yMin |-> yMin, xMax |-> xMax, yMax |-> yMax]

(* extrema over the points whose index is in I (I non-empty) *)
BoxOver(o, I) ==
  Box(SetMin({o.points[i][1] : i \in I}), SetMin({o.points[i][2] : i \in I}),
      SetMax({o.points[i][1] : i \in I}), SetMax({o.points[i][2] : i \in I}))

(* FT_Outline_Get_CBox: extrema over all points, control points included;  *)
(* an empty outline gives the all-zero box                                 *)
FT_Outline_Get_CBox(o) ==
  IF Len(o.points) = 0 THEN Box(0, 0, 0, 0)
  ELSE BoxOver(o, 1..Len(o.points))

(* the answers sampled from the interval lo..hi: both ends and the middle *)
Between(lo, hi) == {lo, hi, (lo + hi) \div 2}

(* FT_Outline_Get_BBox: the extrema of the curves themselves.  Each side   *)
(* lies between the extremum of the on-curve points (bit 0 of the tag set) *)
(* and the extremum of all points; where in between depends on the         *)
(* engine's Bezier arithmetic, so the answer is drawn from that interval.  *)
FT_Outline_Get_BBox(o) ==
  IF Len(o.points) = 0 \/ Len(o.contours) = 0 THEN {Box(0, 0, 0, 0)}
  ELSE LET c  == BoxOver(o, 1..Len(o.points))
           on == BoxOver(o, {i \in 1..Len(o.points) : o.tags[i] % 2 = 1})
       IN  { Box(x0, y0, x1, y1) :
               x0 \in Between(c.xMin, on.xMin), y0 \in Between(c.yMin, on.yMin),
               x1 \in Between(on.xMax, c.xMax), y1 \in Between(on.yMax, c.yMax) }

----------------------------------------------------------------------------
(* v / 64.0 as a numerator over Unit *)
Div64(v) == (v * Unit) \div SubPixel

(* mutant of bbox: returns the device units undivided *)
bbox_raw(cs) ==
  { <<b.xMin, b.yMin, b.xMax, b.yMax>> :
      b \in FT_Outline_Get_BBox(outline(cs, <<>>, <<>>, FALSE)) }

(* FreeTypePen.bbox: the possible values of the property *)
bbox(cs) ==
  { <<Div64(b.xMin), Div64(b.yMin), Div64(b.xMax), Div64(b.yMax)>> :
      b \in FT_Outline_Get_BBox(outline(cs, <<>>, <<>>, FALSE)) }

(* FreeTypePen.cbox *)
cbox(cs) ==
  LET b == FT_Outline_Get_CBox(outline(cs, <<>>, <<>>, FALSE))
  IN  <<Div64(b.xMin), Div64(b.yMin), Div64(b.xMax), Div64(b.yMax)>>

Bbox ==
  /\ \E v \in bbox(contours) : ret' = [op |-> "bbox", err |-> "none", value |-> v]
  /\ engineErr' = -1
  /\ UNCHANGED <<contours, nBegin, nAppended>>

Cbox ==
  /\ ret' = [op |-> "cbox", err |-> "none", value |-> cbox(contours)]
  /\ engineErr' = -1
  /\ UNCHANGED <<contours, nBegin, nAppended>>

(* mutant of canvas: takes the magnitude of each scale component *)
canvas_abs_scale(offset0, width0, height0, scale0, contain, bb) ==
  LET offset   == OrDefault(offset0, <<0, 0>>)
      offset_x == IF contain THEN Min2(offset[1], bb[1]) * (-1) ELSE offset[1]
      offset_y == IF contain THEN Min2(offset[2], bb[2]) * (-1) ELSE offset[2]
      width1   == IF contain THEN Max2(width0 * Unit, bb[3] - bb[1]) ELSE width0 * Unit
      height1  == IF contain THEN Max2(height0 * Unit, bb[4] - bb[2]) ELSE height0 * Unit
      scale0d  == OrDefault(scale0, << <<1, 1>>, <<1, 1>> >>)
      scale    == << <<Abs(scale0d[1][1]), scale0d[1][2]>>, <<Abs(scale0d[2][1]), scale0d[2][2]>> >>
  IN  [ offset |-> <<offset_x, offset_y>>,
        scale  |-> scale,
        width  |-> ceil(width1 * scale[1][1], Unit * scale[1][2]),
        height |-> ceil(height1 * scale[2][1], Unit * scale[2][2]) ]

(* FreeTypePen.buffer, lines 173-183: the offset, scale and canvas size    *)
(* the call settles on.  width0 and height0 are whole pixels; bb is the    *)
(* value the bbox property returned, read only under contain.              *)
canvas(offset0, width0, height0, scale0, contain, bb) ==
  LET offset   == OrDefault(offset0, <<0, 0>>)
      offset_x == IF contain THEN Min2(offset[1], bb[1]) * (-1) ELSE offset[1]
      offset_y == IF contain THEN Min2(offset[2], bb[2]) * (-1) ELSE offset[2]
      width1   == IF contain THEN Max2(width0 * Unit, bb[3] - bb[1]) ELSE width0 * Unit
      height1  == IF contain THEN Max2(height0 * Unit, bb[4] - bb[2]) ELSE height0 * Unit
      scale    == OrDefault(scale0, << <<1, 1>>, <<1, 1>> >>)
  IN  [ offset |-> <<offset_x, offset_y>>,
        scale  |-> scale,
        width  |-> ceil(width1 * scale[1][1], Unit * scale[1][2]),
        height |-> ceil(height1 * scale[2][1], Unit * scale[2][2]) ]

(* mutant of FT_Exception: raises without the engine's code *)
FT_Exception_generic(err) == [err |-> "FT_Exception", code |-> 1]

(* raise FT_Exception(err), line 198 *)
FT_Exception(err) == [err |-> "FT_Exception", code |-> err]

(* mutant of buffer: refuses an empty pen before the engine is asked *)
buffer_nonempty(cs, offset0, width0, height0, evenOdd, scale0, contain, bb, code) ==
  LET cv   == canvas(offset0, width0, height0, scale0, contain, bb)
      args == <<offset0, width0, height0, evenOdd, scale0, contain>>
      o    == outline(cs, cv.offset, cv.scale, evenOdd)
      call == [op |-> "buffer", args |-> args]
  IN  IF cv.width * cv.height < 0
      THEN call @@ [err |-> "ValueError"]
      ELSE IF code # 0 \/ cs = <<>>
      THEN call @@ FT_Exception(code) @@ [offset |-> cv.offset, outline |-> o]
      ELSE call @@ [err |-> "none", offset |-> cv.offset, outline |-> o,
                    buf_len |-> cv.width * cv.height, size |-> <<cv.width, cv.height>>,
                    box |-> IF contain THEN bb ELSE <<>>]

(* FreeTypePen.buffer, lines 184-199: what the call returns or raises,     *)
(* code being what FT_Outline_Get_Bitmap returned.                         *)
buffer(cs, offset0, width0, height0, evenOdd, scale0, contain, bb, code) ==
  LET cv   == canvas(offset0, width0, height0, scale0, contain, bb)
      args == <<offset0, width0, height0, evenOdd, scale0, contain>>
      o    == outline(cs, cv.offset, cv.scale, evenOdd)
      call == [op |-> "buffer", args |-> args]
  IN  IF cv.width * cv.height < 0
      THEN (* ctypes.create_string_buffer refuses a negative size *)
           call @@ [err |-> "ValueError"]
      ELSE IF code # 0
      THEN call @@ FT_Exception(code) @@ [offset |-> cv.offset, outline |-> o]
      ELSE call @@ [err |-> "none", offset |-> cv.offset, outline |-> o,
                    buf_len |-> cv.width * cv.height, size |-> <<cv.width, cv.height>>,
                    box |-> IF contain THEN bb ELSE <<>>]

Buffer(call, code) ==
  /\ \E bb \in (IF call[6] THEN bbox(contours) ELSE {<<0, 0, 0, 0>>}) :
       ret' = buffer(contours, call[1], call[2], call[3], call[4], call[5], call[6], bb, code)
  /\ engineErr' = IF ret'.err = "ValueError" THEN -1 ELSE code
  /\ UNCHANGED <<contours, nBegin, nAppended>>

Next ==
  \/ \E pt \in Points : moveTo(pt)
  \/ \E pt \in Points : lineTo(pt)
  \/ \E p1, p2, p3 \in Points : curveToOne(p1, p2, p3)
  \/ \E p1, p2 \in Points : qCurveToOne(p1, p2)
  \/ \E offset \in Offsets, scale \in Scales, evenOdd \in BOOLEAN :
       Outline(offset, scale, evenOdd)
  \/ Bbox
  \/ Cbox
  \/ \E call \in BufferCalls, code \in FT_Errors : Buffer(call, code)

Spec == Init /\ [][Next]_vars

(* the accumulator and the outline builder alone *)
NextPen ==
  \/ \E pt \in Points : moveTo(pt)
  \/ \E pt \in Points : lineTo(pt)
  \/ \E p1, p2, p3 \in Points : curveToOne(p1, p2, p3)
  \/ \E p1, p2 \in Points : qCurveToOne(p1, p2)
  \/ \E offset \in Offsets, scale \in Scales, evenOdd \in BOOLEAN :
       Outline(offset, scale, evenOdd)

SpecPen == Init /\ [][NextPen]_vars

(* the accumulator and the two bounding-box properties *)
NextBox ==
  \/ \E pt \in Points : moveTo(pt)
  \/ \E pt \in Points : lineTo(pt)
  \/ \E p1, p2, p3 \in Points : curveToOne(p1, p2, p3)
  \/ \E p1, p2 \in Points : qCurveToOne(p1, p2)
  \/ Bbox
  \/ Cbox

SpecBox == Init /\ [][NextBox]_vars

(* the accumulator, the rasterizer and the exact box it sizes the canvas by *)
NextRaster ==
  \/ \E pt \in Points : moveTo(pt)
  \/ \E pt \in Points : lineTo(pt)
  \/ \E p1, p2, p3 \in Points : curveToOne(p1, p2, p3)
  \/ \E p1, p2 \in Points : qCurveToOne(p1, p2)
  \/ Bbox
  \/ \E call \in BufferCalls, code \in FT_Errors : Buffer(call, code)

SpecRaster == Init /\ [][NextRaster]_vars

----------------------------------------------------------------------------
(* Claims *)

Appends == {"lineTo", "curveTo", "qCurveTo"}

(* the step appended pts with tags tgs to the last contour and changed     *)
(* nothing recorded before                                                 *)
AppendedToLast(pts, tgs) ==
  /\ Len(contours) >= 1
  /\ Len(contours') = Len(contours)
  /\ \A i \in 1..(Len(contours) - 1) : contours'[i] = contours[i]
  /\ contours'[Len(contours)].points = contours[Len(contours)].points \o pts
  /\ contours'[Len(contours)].tags = contours[Len(contours)].tags \o tgs

ContourShape ==
  \A i \in 1..Len(contours) :
    /\ Len(contours[i].points) >= 1
    /\ Len(contours[i].tags) = Len(contours[i].points)
    /\ contours[i].tags[1] = LINE

CommandStep ==
  /\ ret'.op = "moveTo" =>
       /\ Len(contours') = Len(contours) + 1
       /\ \A i \in 1..Len(contours) : contours'[i] = contours[i]
       /\ contours'[Len(contours')] = [points |-> <<ret'.args[1]>>, tags |-> <<LINE>>]
  /\ (nBegin > 0 /\ ret'.op = "lineTo") =>
       ret'.err = "none" /\ AppendedToLast(ret'.args, <<LINE>>)
  /\ (nBegin > 0 /\ ret'.op = "curveTo") =>
       ret'.err = "none" /\ AppendedToLast(ret'.args, <<OFFCURVE, OFFCURVE, CURVE>>)
  /\ (nBegin > 0 /\ ret'.op = "qCurveTo") =>
       ret'.err = "none" /\ AppendedToLast(ret'.args, <<QOFFCURVE, QCURVE>>)

(* C1: once a contour has been begun, beginContour(p) adds a new contour   *)
(* holding only p tagged LINE, lineTo(p) appends p tagged LINE to the last *)
(* contour, cubicTo appends c1, c2, p tagged OFFCURVE, OFFCURVE, CURVE and *)
(* quadTo appends c, p tagged QOFFCURVE, QCURVE, each leaving every point  *)
(* and tag recorded before unchanged; so every contour is non-empty, has   *)
(* as many tags as points and begins with a LINE-tagged point.             *)
C1_Commands == [][CommandStep]_vars /\ []ContourShape

(* a quadratic was appended to a second contour *)
C1_Witness ==
  /\ ret.op = "qCurveTo" /\ ret.err = "none"
  /\ Len(contours) = 2
  /\ contours[2].tags = <<LINE, QOFFCURVE, QCURVE>>

(* points before the end of contour k, counted from the accumulator *)
PrefixLen(k) ==
  LET f[j \in 0..Len(contours)] ==
        IF j = 0 THEN 0 ELSE f[j - 1] + Len(contours[j].points)
  IN  f[k]

(* C2: the outline built by outline() has a point count equal to the       *)
(* number of points appended, a contour count equal to the number of       *)
(* beginContour commands, a k-th contour-end index equal to the summed     *)
(* length of the first k contours minus one (so the last is                *)
(* pointCount - 1), and point and tag arrays of pointCount entries, the    *)
(* tags in contour order.                                                  *)
C2_OutlineCounts ==
  ret.op = "outline" =>
    LET o == ret.value
    IN  /\ o.n_points = nAppended
        /\ o.n_contours = nBegin
        /\ Len(o.contours) = nBegin
        /\ \A k \in 1..nBegin : o.contours[k] = PrefixLen(k) - 1
        /\ nBegin > 0 => o.contours[nBegin] = o.n_points - 1
        /\ Len(o.points) = o.n_points
        /\ Len(o.tags) = o.n_points
        /\ \A k \in 1..nBegin : \A i \in 1..Len(contours[k].tags) :
             o.tags[PrefixLen(k - 1) + i] = contours[k].tags[i]

(* an outline of two contours of different lengths *)
C2_Witness ==
  /\ ret.op = "outline"
  /\ ret.value.n_contours = 2
  /\ ret.value.contours = <<2, 3>>

(* q is the integer nearest to n/d (d > 0), a tie going away from zero *)
NearestAway(q, n, d) ==
  /\ 2 * Abs(q * d - n) <= d
  /\ 2 * Abs(q * d - n) = d => Abs(q) * d > Abs(n)

ArgOffset == IF Len(ret.args[1]) = 0 THEN <<0, 0>> ELSE ret.args[1]

ArgScale == IF Len(ret.args[2]) = 0 THEN << <<1, 1>>, <<1, 1>> >> ELSE ret.args[2]

C4_NoOpenContour ==
  [][(contours = <<>> /\ ret'.op \in Appends) =>
       /\ ret'.err # "none"
       /\ contours' = <<>>
       /\ nAppended' = nAppended /\ nBegin' = nBegin]_vars

(* a cubicTo was refused on the fresh pen *)
C4_Witness ==
  /\ ret.op = "curveTo" /\ ret.err # "none"
  /\ contours = <<>> /\ nAppended = 0

Rendered == ret.op = "buffer" /\ ret.err = "none"

CallScale == IF Len(ret.args[5]) = 0 THEN << <<1, 1>>, <<1, 1>> >> ELSE ret.args[5]

(* C5: under contain, the final offset and canvas hold the exact box:      *)
(* shifted by the final offset (and scaled by a positive scale) its low    *)
(* side is >= 0 and its high side is <= the final width or height.  Stated *)
(* for outlines whose exact box has a width and a height.                  *)
C5_ContainFits ==
  (Rendered /\ ret.args[6] /\ ret.box[1] < ret.box[3] /\ ret.box[2] < ret.box[4]) =>
    \A c \in 1..2 :
      CallScale[c][1] > 0 =>
        /\ (ret.box[c] + ret.offset[c]) * CallScale[c][1] >= 0
        /\ (ret.box[c + 2] + ret.offset[c]) * CallScale[c][1]
             <= ret.size[c] * Unit * CallScale[c][2]

(* C6 as stated: under contain the returned size is never below the        *)
(* requested width and height (stated for positive scale components).      *)
C6_NeverShrinks ==
  (Rendered /\ ret.args[6]) =>
    \A c \in 1..2 :
      CallScale[c][1] > 0 => ret.size[c] >= ret.args[c + 1]

(* C6, amended: under contain the returned width is never below the        *)
(* requested width when scale is omitted or its x component is at least 1, *)
(* and likewise the height with the y component.                           *)
C6_NeverShrinksUnscaled ==
  (Rendered /\ ret.args[6]) =>
    \A c \in 1..2 :
      CallScale[c][1] >= CallScale[c][2] => ret.size[c] >= ret.args[c + 1]

(* auto-sizing widened a 0 x 0 request *)
C6_Witness ==
  /\ Rendered /\ ret.args[6]
  /\ Len(ret.args[5]) = 0
  /\ ret.args[2] = 0 /\ ret.size[1] > 0

IdentityPoints == outline(contours, <<>>, <<>>, FALSE).points

OnlyLines == \A k \in 1..Len(contours) : \A i \in 1..Len(contours[k].tags) :
               contours[k].tags[i] = LINE

(* C7: the control box contains the exact box, the two are equal when the  *)
(* outline has only line segments, and both are the device-unit extrema    *)
(* divided by 64.                                                          *)
C7_BoxContainment ==
  /\ ret.op = "bbox" =>
       LET c == cbox(contours)
       IN  /\ c[1] <= ret.value[1] /\ c[2] <= ret.value[2]
           /\ c[3] >= ret.value[3] /\ c[4] >= ret.value[4]
           /\ OnlyLines => ret.value = c
           /\ \A i \in 1..4 : (ret.value[i] * SubPixel) % Unit = 0
  /\ (ret.op = "cbox" /\ contours # <<>>) =>
       LET P == IdentityPoints
       IN  /\ \A i \in 1..Len(P) :
                 /\ ret.value[1] * SubPixel <= P[i][1] * Unit
                 /\ ret.value[2] * SubPixel <= P[i][2] * Unit
                 /\ ret.value[3] * SubPixel >= P[i][1] * Unit
                 /\ ret.value[4] * SubPixel >= P[i][2] * Unit
           /\ \A s \in 1..4 : \E i \in 1..Len(P) :
                 ret.value[s] * SubPixel = P[i][IF s \in {1, 3} THEN 1 ELSE 2] * Unit

(* an exact box strictly inside the control box of a curved outline *)
C7_Witness ==
  /\ ret.op = "bbox"
  /\ ~OnlyLines
  /\ ret.value[3] < cbox(contours)[3]

Queries == {"outline", "bbox", "cbox", "buffer"}

QueryStep == ret'.op \in Queries => contours' = contours

(* the on-curve points, quantized under the identity transform *)
IdentityOnCurve ==
  LET o == outline(contours, <<>>, <<>>, FALSE)
  IN  {o.points[i] : i \in {j \in 1..Len(o.points) : o.tags[j] % 2 = 1}}

BoxIsIdentity ==
  ret.op \in {"bbox", "cbox"} =>
    \A p \in IdentityOnCurve :
      /\ ret.value[1] * SubPixel <= p[1] * Unit /\ p[1] * Unit <= ret.value[3] * SubPixel
      /\ ret.value[2] * SubPixel <= p[2] * Unit /\ p[2] * Unit <= ret.value[4] * SubPixel

OutlineIsFunction ==
  ret.op = "outline" =>
    ret.value = outline(contours, ret.args[1], ret.args[2], ret.args[3])

(* C8: outline(), bbox, cbox and buffer() never change the accumulated     *)
(* contours; a box query encloses the identity-transformed points whatever *)
(* transform an earlier call used; and an outline is determined by the     *)
(* contours and the arguments alone.                                       *)
C8_QueriesPure == [][QueryStep]_vars /\ []BoxIsIdentity /\ []OutlineIsFunction

(* an outline built with an offset and a scale, the stored point untouched *)
C8_Witness ==
  /\ ret.op = "outline"
  /\ ret.args[1] = <<-Unit, -Unit>> /\ ret.args[2] = Half
  /\ Len(contours) = 1
  /\ contours[1].points = << <<3, -3>>, <<130, 2>> >>
  /\ ret.value.points = << <<-31, -131>>, <<1, -126>> >>

(* C9: a non-zero code from the engine makes buffer fail with exactly that *)
(* code and no bitmap; a bitmap of width*height bytes with its size is     *)
(* returned only when the engine reports success.                          *)
C9_EngineError ==
  /\ (engineErr # 0 /\ engineErr # -1) =>
       /\ ret.op = "buffer" /\ ret.err = "FT_Exception"
       /\ ret.code = engineErr
       /\ "buf_len" \notin DOMAIN ret /\ "size" \notin DOMAIN ret
  /\ "buf_len" \in DOMAIN ret =>
       /\ engineErr = 0 /\ ret.err = "none"
       /\ ret.buf_len = ret.size[1] * ret.size[2]

(* the engine refused a non-empty outline with code 98 *)
C9_Witness ==
  /\ ret.op = "buffer" /\ ret.err = "FT_Exception"
  /\ ret.code = 98 /\ engineErr = 98
  /\ contours # <<>>

EmptyBox == (ret.op = "bbox" /\ contours = <<>>) => ret.value = <<0, 0, 0, 0>>

(* C10 as stated: rasterizing with no contour fails instead of returning a *)
(* bitmap, while the exact box of the empty outline is (0, 0, 0, 0).       *)
C10_EmptyRejected ==
  /\ (ret.op = "buffer" /\ contours = <<>>) => ret.err # "none"
  /\ EmptyBox

(* C10, amended: with no contour, buffer hands the engine an outline of 0  *)
(* points and 0 contours and returns the bitmap whenever the engine        *)
(* reports success; the exact box of the empty outline is (0, 0, 0, 0).    *)
C10_EmptyRasterized ==
  /\ (ret.op = "buffer" /\ contours = <<>> /\ engineErr # -1) =>
       /\ ret.outline.n_points = 0 /\ ret.outline.n_contours = 0
       /\ engineErr = 0 => ret.err = "none" /\ ret.buf_len = ret.size[1] * ret.size[2]
       /\ engineErr # 0 => ret.err = "FT_Exception"
  /\ EmptyBox

(* a 1 x 2 bitmap returned for the empty pen *)
C10_Witness ==
  /\ contours = <<>>
  /\ ret.op = "buffer" /\ ret.err = "none"
  /\ ret.size = <<1, 2>> /\ ret.buf_len = 2

(* a scale that is given and has a zero or negative component *)
NonPositive(scale) == Len(scale) > 0 /\ \E c \in 1..2 : scale[c][1] <= 0

(* C11 as stated: a scale with a zero or negative component is rejected,   *)
(* so neither outline() nor buffer() returns anything for it (stated for a *)
(* pen that holds at least one point).                                     *)
C11_ScaleRejected ==
  (/\ contours # <<>>
   /\ \/ ret.op = "outline" /\ NonPositive(ret.args[2])
      \/ ret.op = "buffer" /\ NonPositive(ret.args[5]))
  => ret.err # "none"

(* C11, amended: a zero or negative scale component is not rejected.       *)
(* outline() quantizes every point with it (a zero component gives 0, a    *)
(* negative one the opposite sign); buffer() fails only when the scaled    *)
(* width times the scaled height is negative, with the ValueError of the   *)
(* bitmap allocation and before any point is quantized, and otherwise      *)
(* builds the outline, asks the engine and returns the bitmap on success.  *)
C11_ScaleUnchecked ==
  /\ (ret.op = "outline" /\ NonPositive(ret.args[2])) =>
       /\ ret.err = "none"
       /\ Len(ret.value.points) = nAppended
       /\ \A i \in 1..nAppended : \A c \in 1..2 :
            LET v == FlatPoints(contours)[i][c] + ArgOffset[c]
                q == ret.value.points[i][c]
            IN  /\ ret.args[2][c][1] = 0 => q = 0
                /\ ret.args[2][c][1] < 0 => q * v <= 0
  /\ (ret.op = "buffer" /\ NonPositive(ret.args[5])) =>
       /\ ret.err = "ValueError" =>
            /\ engineErr = -1
            /\ "outline" \notin DOMAIN ret /\ "buf_len" \notin DOMAIN ret
            /\ \E c \in 1..2 : ret.args[5][c][1] < 0
       /\ ~ret.args[6] =>
            (ret.err = "ValueError" <=>
               ceil(ret.args[2] * Unit * ret.args[5][1][1], Unit * ret.args[5][1][2])
                 * ceil(ret.args[3] * Unit * ret.args[5][2][1], Unit * ret.args[5][2][2]) < 0)
       /\ ret.err # "ValueError" =>
            /\ engineErr # -1
            /\ Len(ret.outline.points) = nAppended
            /\ engineErr = 0 => ret.err = "none" /\ ret.buf_len = ret.size[1] * ret.size[2]

(* a bitmap returned for a zero y scale, every point flattened onto y = 0 *)
C11_Witness ==
  /\ ret.op = "buffer" /\ ret.err = "none"
  /\ ret.args[5] = Flat
  /\ contours # <<>>
  /\ \A i \in 1..Len(ret.outline.points) : ret.outline.points[i][2] = 0
  /\ ret.size[2] = 0
====
